---- MODULE Spec2Model ----
(***************************************************************************)
(* Skeletal decomposition pipeline of the Mesh Decomposer:                 *)
(* src/src/render/SkeletalMesh.cpp (skeleton construction, bone matrix     *)
(* propagation, animation sampling, per-bone convex decomposition).        *)
(*                                                                         *)
(* Matrices (glm::mat4) are modelled as elements of the free group over    *)
(* named generators: a matrix is a reduced word of letters, the product is *)
(* concatenation followed by cancellation of adjacent inverse pairs, the   *)
(* inverse is the reversed word of inverted letters, and the identity is   *)
(* the empty word.  An equality of products that holds here holds for all  *)
(* invertible matrices, and the product does not commute.                  *)
(***************************************************************************)
EXTENDS Integers, Sequences, FiniteSets, TLC

VARIABLES
    scene,                  \* the imported aiScene (input, fixed once chosen)
    status,                 \* "unloaded" | "loaded" | "failed" | "crashed"
    bones_,                 \* Skeleton::bones_            (bone id i is bones_[i+1])
    bone_matrices_,         \* Skeleton::bone_matrices_    (final skinning matrices)
    bone_map_,              \* Skeleton::bone_map_         (name -> id)
    num_bones_,             \* Skeleton::num_bones_
    vertices_,              \* Skeleton::vertices_
    vertex_to_boneID_map_,  \* Skeleton::vertex_to_boneID_map_
    animations_,            \* Skeleton::animations_       (name -> Animation)
    current_animation_,     \* Skeleton::current_animation_ (key of the entry pointed to)
    draw_mesh,              \* SkinnedMesh::draw_mesh      (skin data of each object)
    collision_mesh,         \* SkinnedMesh::collision_mesh (the convex parts)
    call,                   \* the last operation called and its argument
    sampler,                \* a key track, a sample time and the value sampled from them
    core                    \* Core: the meshes held, the collider, the render options and
                            \* the animation selected in the GUI

vars == <<scene, status, bones_, bone_matrices_, bone_map_, num_bones_, vertices_,
          vertex_to_boneID_map_, animations_, current_animation_, draw_mesh,
          collision_mesh, call, sampler, core>>

----------------------------------------------------------------------------
(* Bounds of the model *)

\* nodes in the scene's node hierarchy
MaxNodes == 3
\* vertices of a mesh
MaxVerts == 1
\* keys of a sampled track
MaxKeys == 3
\* largest key time of a sampled track
MaxKeyTime == 3
\* largest time (in seconds) handed to playCurrentAnimation
MaxTime == 4
\* bones added through direct addBone calls
MaxBones == 2

----------------------------------------------------------------------------
(* glm::mat4 algebra *)

\* glm::mat4(1.0f)
Identity == <<>>

\* a matrix that is a single named generator
Generator(kind, n, d) == << [k |-> kind, n |-> n, d |-> d, e |-> 1] >>

InverseLetter(l) == [l EXCEPT !.e = 0 - l.e]

\* glm::inverse
Inverse(m) ==
    IF m = <<>> THEN <<>>
    ELSE [i \in 1..Len(m) |-> InverseLetter(m[Len(m) + 1 - i])]

\* glm::mat4 operator*
RECURSIVE MatMul(_, _)
MatMul(x, y) ==
    IF x = <<>> THEN y
    ELSE IF y = <<>> THEN x
    ELSE IF x[Len(x)] = InverseLetter(y[1])
         THEN MatMul(SubSeq(x, 1, Len(x) - 1), Tail(y))
         ELSE x \o y

----------------------------------------------------------------------------
(* The imported scene (aiScene).  Node n of the hierarchy is named n;      *)
(* node 1 is scene->mRootNode, parent[n] < n, and the children of a node   *)
(* are ordered by their number.  The name 0 is the empty string.           *)
(*   scene.parent : node -> parent node (0 for the root node)              *)
(*   scene.meshes : sequence of [nverts, bones], bones a sequence of       *)
(*                  [name, weights], weights a sequence of [v, w]          *)
(*   scene.anims  : sequence of [name, tps, duration, channels]            *)

EmptyName == 0
NullNode == 0
RootSentinel == 0 - 1

NodesOf(sc) == 1..Len(sc.parent)

RECURSIVE SortedSeq(_)
SortedSeq(S) ==
    IF S = {} THEN <<>>
    ELSE LET m == CHOOSE x \in S : \A y \in S : x <= y
         IN  <<m>> \o SortedSeq(S \ {m})

\* aiNode::mChildren
NodeChildren(sc, n) == SortedSeq({c \in NodesOf(sc) : sc.parent[c] = n})

\* aiNode::FindNode
FindNode(sc, name) == IF name \in NodesOf(sc) THEN name ELSE NullNode

\* the names of the aiBones of the meshes that have bones
SceneBoneNames(sc) ==
    UNION { {sc.meshes[i].bones[b].name : b \in 1..Len(sc.meshes[i].bones)} :
            i \in 1..Len(sc.meshes) }

\* a faulty variant: every node taken for a bone
FindBoneAny(sc, name) == TRUE

\* aiScene::findBone: is there an aiBone of that name
FindBone(sc, name) == name \in SceneBoneNames(sc)

\* aiBone::mOffsetMatrix of the bone of that name
OffsetMatrix(name) == Generator("offset", name, 1)

----------------------------------------------------------------------------
(* Skeleton model *)

EmptyMap == <<>>

MapPut(f, k, v) == [x \in (DOMAIN f) \cup {k} |-> IF x = k THEN v ELSE f[x]]

\* Bone::Bone: a bone starts without children and without vertex weights, and
\* its bind-pose snapshot is the local transform it is built with
Bone(bone_name, id, parent_id, offset_matrix, local_transform) ==
    [name |-> bone_name, id |-> id, parent_id |-> parent_id,
     offset_matrix |-> offset_matrix, local_transform |-> local_transform,
     bind_pose_transform |-> local_transform,
     children |-> <<>>, vertex_weights |-> EmptyMap]

\* Bone::addChild
AddChild(bone, child) == [bone EXCEPT !.children = Append(@, child.id)]

EmptySkeleton ==
    [bones |-> <<>>, bone_matrices |-> <<>>, bone_map |-> EmptyMap, num_bones |-> 0,
     ub |-> FALSE]

\* a faulty variant: the name is mapped to the bone count after the push
AddBoneCounted(sk, bone_name, current_id, parent_id, offset_matrix, local_transform) ==
    LET to_add == Bone(bone_name, current_id, parent_id, offset_matrix, local_transform)
        pushed == Append(sk.bones, to_add)
        inRange == parent_id >= 0 /\ parent_id < Len(pushed)
    IN  [bones |-> IF parent_id # RootSentinel /\ inRange
                   THEN [pushed EXCEPT ![parent_id + 1] = AddChild(@, to_add)]
                   ELSE pushed,
         bone_matrices |-> Append(sk.bone_matrices, offset_matrix),
         bone_map |-> MapPut(sk.bone_map, to_add.name, Len(pushed)),
         num_bones |-> Len(pushed),
         ub |-> sk.ub \/ (parent_id # RootSentinel /\ ~inRange)]

\* a faulty variant: no final matrix is pushed for the new bone
AddBoneUnmatched(sk, bone_name, current_id, parent_id, offset_matrix, local_transform) ==
    LET to_add == Bone(bone_name, current_id, parent_id, offset_matrix, local_transform)
        pushed == Append(sk.bones, to_add)
        inRange == parent_id >= 0 /\ parent_id < Len(pushed)
    IN  [bones |-> IF parent_id # RootSentinel /\ inRange
                   THEN [pushed EXCEPT ![parent_id + 1] = AddChild(@, to_add)]
                   ELSE pushed,
         bone_matrices |-> sk.bone_matrices,
         bone_map |-> MapPut(sk.bone_map, to_add.name, current_id),
         num_bones |-> Len(pushed),
         ub |-> sk.ub \/ (parent_id # RootSentinel /\ ~inRange)]

\* Skeleton::addBone.  bones_[parent_id] is an unchecked vector access: an
\* index outside the sequence (as it is after the push) is undefined
\* behaviour, flagged in ub.
AddBone(sk, bone_name, current_id, parent_id, offset_matrix, local_transform) ==
    LET to_add == Bone(bone_name, current_id, parent_id, offset_matrix, local_transform)
        pushed == Append(sk.bones, to_add)
        inRange == parent_id >= 0 /\ parent_id < Len(pushed)
    IN  [bones |-> IF parent_id # RootSentinel /\ inRange
                   THEN [pushed EXCEPT ![parent_id + 1] = AddChild(@, to_add)]
                   ELSE pushed,
         bone_matrices |-> Append(sk.bone_matrices, offset_matrix),
         bone_map |-> MapPut(sk.bone_map, to_add.name, current_id),
         num_bones |-> Len(pushed),
         ub |-> sk.ub \/ (parent_id # RootSentinel /\ ~inRange)]

----------------------------------------------------------------------------
(* Skeleton builder *)

\* findRootBone: pre-order search for the first node whose name is a bone name
RECURSIVE findRootBone(_, _, _)
RECURSIVE findRootBoneIn(_, _, _)
findRootBone(sc, curr_node, bone_names) ==
    IF curr_node \in bone_names THEN curr_node
    ELSE findRootBoneIn(sc, NodeChildren(sc, curr_node), bone_names)

findRootBoneIn(sc, children, bone_names) ==
    IF children = <<>> THEN EmptyName
    ELSE LET result == findRootBone(sc, Head(children), bone_names)
         IN  IF result # EmptyName THEN result
             ELSE findRootBoneIn(sc, Tail(children), bone_names)

\* a faulty variant: the bind-pose global transform taken as local transform,
\* the parent's bind pose not divided out
LocalTransformOfBindGlobal(sk, parent_id, offset_matrix) == Inverse(offset_matrix)

\* the local transform constructSkeleton derives for a bone
LocalTransformOf(sk, parent_id, offset_matrix) ==
    LET bind_pose_global == Inverse(offset_matrix)
    IN  IF parent_id = RootSentinel
        THEN bind_pose_global
        ELSE LET parent_bind_global == Inverse(sk.bones[parent_id + 1].offset_matrix)
             IN  MatMul(Inverse(parent_bind_global), bind_pose_global)

\* constructSkeleton.  node_global is computed and handed down by the code but
\* never stored in the skeleton, so it is not carried here.
RECURSIVE constructSkeleton(_, _, _, _)
RECURSIVE constructChildren(_, _, _, _)
constructSkeleton(sk, sc, curr_node, parent_id) ==
    IF FindBone(sc, curr_node)
    THEN LET current_id == Len(sk.bones)
             offset_matrix == OffsetMatrix(curr_node)
             local_transform == LocalTransformOf(sk, parent_id, offset_matrix)
             added == AddBone(sk, curr_node, current_id, parent_id,
                              offset_matrix, local_transform)
         IN  constructChildren(added, sc, NodeChildren(sc, curr_node), current_id)
    ELSE constructChildren(sk, sc, NodeChildren(sc, curr_node), parent_id)

constructChildren(sk, sc, children, parent_id) ==
    IF children = <<>> THEN sk
    ELSE constructChildren(constructSkeleton(sk, sc, Head(children), parent_id),
                           sc, Tail(children), parent_id)

\* loadSkeleton.  When no root is found root_name is empty, FindNode returns
\* a null node and constructSkeleton dereferences it: undefined behaviour.
loadSkeleton(sc) ==
    LET bone_names == SceneBoneNames(sc)
        root_name == findRootBone(sc, 1, bone_names)
        node == FindNode(sc, root_name)
    IN  IF node = NullNode
        THEN [EmptySkeleton EXCEPT !.ub = TRUE]
        ELSE constructSkeleton(EmptySkeleton, sc, node, RootSentinel)

----------------------------------------------------------------------------
(* Bone matrix propagator *)

\* a faulty variant: the product taken in the opposite order
GlobalTransformSwapped(parent_transform, bone) ==
    MatMul(bone.local_transform, parent_transform)

\* traverseBoneHierarchy: the parent's global transform times the bone's local one
GlobalTransform(parent_transform, bone) == MatMul(parent_transform, bone.local_transform)

\* Skeleton::traverseBoneHierarchy
RECURSIVE traverseBoneHierarchy(_, _, _, _)
RECURSIVE traverseChildren(_, _, _, _)
traverseBoneHierarchy(bones, matrices, bone_id, parent_transform) ==
    LET bone == bones[bone_id + 1]
        global_transform == GlobalTransform(parent_transform, bone)
        updated == [matrices EXCEPT ![bone_id + 1] =
                        MatMul(global_transform, bone.offset_matrix)]
    IN  traverseChildren(bones, updated, bone.children, global_transform)

traverseChildren(bones, matrices, children, global_transform) ==
    IF children = <<>> THEN matrices
    ELSE traverseChildren(bones,
             traverseBoneHierarchy(bones, matrices, Head(children), global_transform),
             Tail(children), global_transform)

\* std::vector::resize(n, value)
Resize(s, n, value) ==
    [i \in 1..n |-> IF i <= Len(s) THEN s[i] ELSE value]

\* Skeleton::updateBoneMatrices: traverses from the first parent-less bone only
updateBoneMatrices(bones, matrices, num_bones) ==
    LET sized == IF Len(matrices) # num_bones
                 THEN Resize(matrices, num_bones, Identity)
                 ELSE matrices
        roots == {i \in 0..(Len(bones) - 1) : bones[i + 1].parent_id = RootSentinel}
    IN  IF roots = {} THEN sized
        ELSE LET first == CHOOSE i \in roots : \A j \in roots : i <= j
             IN  traverseBoneHierarchy(bones, sized, first, Identity)

----------------------------------------------------------------------------
(* Animation sampler.  Times and key values are integers; a sampled value  *)
(* is the exact rational [n, d] (d > 0, lowest terms).  A vector or a      *)
(* quaternion is modelled by one coordinate: the x component of a          *)
(* position or scale, the angle of a rotation about a fixed axis.          *)

\* the result of fmod by zero; every comparison with it is false
NaN == 0 - 1000000

Less(x, y) == x # NaN /\ y # NaN /\ x < y

Abs(x) == IF x < 0 THEN 0 - x ELSE x

RECURSIVE Gcd(_, _)
Gcd(x, y) == IF y = 0 THEN x ELSE Gcd(y, x % y)

\* the rational n/d in lowest terms, d # 0
Rat(n, d) ==
    LET g == Gcd(Abs(n), Abs(d))
        s == IF d < 0 THEN 0 - 1 ELSE 1
    IN  [n |-> (s * n) \div g, d |-> (s * d) \div g]

Whole(v) == [n |-> v, d |-> 1]

\* fmod(x, y): the remainder has the sign of x
Fmod(x, y) ==
    IF y = 0 THEN NaN
    ELSE IF x >= 0 THEN x % Abs(y) ELSE 0 - ((0 - x) % Abs(y))

\* findKeyframeIndex (0-based index, called with at least two keys)
RECURSIVE findKeyframeIndexFrom(_, _, _)
findKeyframeIndexFrom(keys, time, i) ==
    IF i < Len(keys) - 1
    THEN IF Less(time, keys[i + 2].time) THEN i
         ELSE findKeyframeIndexFrom(keys, time, i + 1)
    ELSE Len(keys) - 1

\* a faulty variant: the first key is taken whatever the time
findKeyframeIndexFirst(keys, time) == 0

findKeyframeIndex(keys, time) == findKeyframeIndexFrom(keys, time, 0)

\* the value computed from a factor with a zero divisor (an infinity or a NaN)
NotFinite == [n |-> NaN, d |-> 1]

\* glm::mix(x, y, a) = x + (y - x) * a for a = num / den
Mix(x, y, num, den) ==
    IF den = 0 THEN NotFinite ELSE Rat(x * den + (y - x) * num, den)

\* glm::slerp of two rotations about the same axis, at most half a turn
\* apart: the angle is interpolated linearly
Slerp(x, y, num, den) ==
    IF den = 0 THEN NotFinite ELSE Rat(x * den + (y - x) * num, den)

\* the part interpolatePosition, interpolateRotation and interpolateScale share
InterpolateKeys(keys, time, empty_value, spherical) ==
    IF keys = <<>> THEN Whole(empty_value)
    ELSE IF Len(keys) = 1 THEN Whole(keys[1].value)
    ELSE LET index == findKeyframeIndex(keys, time)
             next_index == index + 1
         IN  IF next_index >= Len(keys)
             THEN Whole(keys[index + 1].value)
             ELSE LET key1 == keys[index + 1]
                      key2 == keys[next_index + 1]
                      delta_time == key2.time - key1.time
                  IN  IF spherical
                      THEN Slerp(key1.value, key2.value, time - key1.time, delta_time)
                      ELSE Mix(key1.value, key2.value, time - key1.time, delta_time)

interpolatePosition(keys, time) == InterpolateKeys(keys, time, 0, FALSE)

interpolateRotation(keys, time) == InterpolateKeys(keys, time, 0, TRUE)

interpolateScale(keys, time) == InterpolateKeys(keys, time, 1, FALSE)

\* glm::translate(mat4(1), v), glm::mat4_cast(q), glm::scale(mat4(1), v)
Translate(v) == IF v = Whole(0) THEN Identity ELSE Generator("translate", v.n, v.d)
MatCast(q) == IF q = Whole(0) THEN Identity ELSE Generator("rotate", q.n, q.d)
Scale(v) == IF v = Whole(1) THEN Identity ELSE Generator("scale", v.n, v.d)

\* AnimationChannel::calculateTransform
calculateTransform(channel, animation_time) ==
    LET position == interpolatePosition(channel.position_keys, animation_time)
        rotation == interpolateRotation(channel.rotation_keys, animation_time)
        scale == interpolateScale(channel.scale_keys, animation_time)
    IN  MatMul(MatMul(Translate(position), MatCast(rotation)), Scale(scale))

\* the ticks-per-second used when the scene declares none
DefaultTicksPerSecond == 25

\* loadAnimations: one aiNodeAnim; channels of names outside the skeleton are skipped
RECURSIVE loadChannels(_, _, _)
loadChannels(ai_channels, bone_map, channels) ==
    IF ai_channels = <<>> THEN channels
    ELSE LET ai_channel == Head(ai_channels)
             bone_name == ai_channel.node
         IN  IF bone_name \notin DOMAIN bone_map
             THEN loadChannels(Tail(ai_channels), bone_map, channels)
             ELSE LET channel == [bone_id |-> bone_map[bone_name],
                                  bone_name |-> bone_name,
                                  position_keys |-> ai_channel.position_keys,
                                  rotation_keys |-> ai_channel.rotation_keys,
                                  scale_keys |-> ai_channel.scale_keys]
                  IN  loadChannels(Tail(ai_channels), bone_map,
                                   MapPut(channels, channel.bone_id, channel))

\* loadAnimations
RECURSIVE loadAnimationsFrom(_, _, _)
loadAnimationsFrom(ai_anims, bone_map, animations_map) ==
    IF ai_anims = <<>> THEN animations_map
    ELSE LET ai_anim == Head(ai_anims)
             animation ==
                 [ticks_per_second |-> IF ai_anim.tps # 0 THEN ai_anim.tps
                                       ELSE DefaultTicksPerSecond,
                  duration |-> ai_anim.duration,
                  channels |-> loadChannels(ai_anim.channels, bone_map, EmptyMap)]
         IN  loadAnimationsFrom(Tail(ai_anims), bone_map,
                                MapPut(animations_map, ai_anim.name, animation))

\* a faulty variant: a channel is bound to the number of its node, whether
\* the node is a bone of the skeleton or not
loadAnimationsByNode(sc, bone_map) ==
    loadAnimationsFrom(sc.anims, [n \in 1..Len(sc.parent) |-> n - 1], EmptyMap)

loadAnimations(sc, bone_map) == loadAnimationsFrom(sc.anims, bone_map, EmptyMap)

\* a value-initialised Animation, as std::unordered_map::operator[] inserts
DefaultAnimation == [ticks_per_second |-> 0, duration |-> 0, channels |-> EmptyMap]

\* the null current_animation_
NoAnimation == "nullptr"

\* a faulty variant: the time in ticks, not wrapped by the duration
AnimationTimeUnwrapped(animation, current_time) ==
    current_time * animation.ticks_per_second

\* the animation time playCurrentAnimation samples at
AnimationTime(animation, current_time) ==
    Fmod(current_time * animation.ticks_per_second, animation.duration)

\* a faulty variant: bones without a channel fall back to their bind pose
playChannelsFromBind(bones, animation, current_time) ==
    LET animation_time == Fmod(current_time * animation.ticks_per_second,
                               animation.duration)
    IN  [i \in 1..Len(bones) |->
            [bones[i] EXCEPT !.local_transform =
                IF (i - 1) \in DOMAIN animation.channels
                THEN calculateTransform(animation.channels[i - 1], animation_time)
                ELSE bones[i].bind_pose_transform]]

\* the first half of Skeleton::playCurrentAnimation: the bones after the
\* channels of the active animation have set their local transforms
playChannels(bones, animation, current_time) ==
    LET animation_time == AnimationTime(animation, current_time)
    IN  [i \in 1..Len(bones) |->
            IF (i - 1) \in DOMAIN animation.channels
            THEN [bones[i] EXCEPT !.local_transform =
                      calculateTransform(animation.channels[i - 1], animation_time)]
            ELSE bones[i]]

\* a faulty variant: an unknown name clears the current animation
setCurrentAnimationClearing(animations, current_animation, animation_name) ==
    IF animation_name \notin DOMAIN animations THEN NoAnimation
    ELSE animation_name

\* Skeleton::setCurrentAnimation: the animation pointed to after the call
setCurrentAnimation(animations, current_animation, animation_name) ==
    IF animation_name \notin DOMAIN animations THEN current_animation
    ELSE animation_name

\* a faulty variant: the pose reset to the bones' bind-pose global transforms
resetToBindPoseGlobal(bones) ==
    [i \in 1..Len(bones) |->
        [bones[i] EXCEPT !.local_transform = Inverse(bones[i].offset_matrix)]]

\* Skeleton::resetToBindPose
resetToBindPose(bones) ==
    [i \in 1..Len(bones) |-> [bones[i] EXCEPT !.local_transform = bones[i].bind_pose_transform]]

----------------------------------------------------------------------------
(* Skin weights (SkeletalMesh::loadFbx, per mesh with bones).  A weight is *)
(* an exact rational.                                                      *)

MAX_BONES_PER_VERTEX == 4

RatAdd(x, y) == Rat(x.n * y.d + y.n * x.d, x.d * y.d)
RatDiv(x, y) == Rat(x.n * y.d, x.d * y.n)

\* BoneIDs{} and BoneWeights{}
ZeroIDs == [j \in 1..MAX_BONES_PER_VERTEX |-> 0]
ZeroWeights == [j \in 1..MAX_BONES_PER_VERTEX |-> Whole(0)]

\* std::unordered_map::operator[] on bone_map_: an absent name is inserted with id 0
BoneMapIndex(bone_map, name) ==
    IF name \in DOMAIN bone_map THEN bone_map ELSE MapPut(bone_map, name, 0)

\* the first slot of a vertex whose weight is 0.0 takes the pair; none is left
\* after four non-zero weights
FirstFreeSlot(weights) ==
    LET free == {j \in 1..MAX_BONES_PER_VERTEX : weights[j] = Whole(0)}
    IN  IF free = {} THEN 0 ELSE CHOOSE j \in free : \A k \in free : j <= k

\* loadFbx, the body of the loop over bone->mWeights.  st holds the skeleton
\* fields and the mesh's bone_ids and bone_weights arrays (vertex v at v + 1).
populateWeight(st, bone_id, weight) ==
    LET vertex_id == weight.v
        slot == FirstFreeSlot(st.bone_weights[vertex_id + 1])
        before == IF vertex_id \in DOMAIN st.vertex_to_boneID_map
                  THEN st.vertex_to_boneID_map[vertex_id] ELSE <<>>
    IN  IF bone_id >= Len(st.bones)
        THEN [st EXCEPT !.ub = TRUE]
        ELSE [st EXCEPT
                !.bones[bone_id + 1].vertex_weights = MapPut(@, vertex_id, weight.w),
                !.vertex_to_boneID_map = MapPut(@, vertex_id, Append(before, bone_id)),
                !.bone_ids[vertex_id + 1] =
                    IF slot = 0 THEN @ ELSE [@ EXCEPT ![slot] = bone_id],
                !.bone_weights[vertex_id + 1] =
                    IF slot = 0 THEN @ ELSE [@ EXCEPT ![slot] = weight.w]]

RECURSIVE populateWeights(_, _, _)
populateWeights(st, bone_id, weights) ==
    IF weights = <<>> THEN st
    ELSE populateWeights(populateWeight(st, bone_id, Head(weights)), bone_id, Tail(weights))

\* loadFbx, the loop over aimesh->mBones ("populate bone data")
RECURSIVE populateBones(_, _)
populateBones(st, ai_bones) ==
    IF ai_bones = <<>> THEN st
    ELSE LET bone == Head(ai_bones)
             indexed == BoneMapIndex(st.bone_map, bone.name)
             bone_id == indexed[bone.name]
         IN  populateBones(populateWeights([st EXCEPT !.bone_map = indexed],
                                           bone_id, bone.weights),
                           Tail(ai_bones))

RECURSIVE SumWeights(_, _)
SumWeights(b_w, j) ==
    IF j > Len(b_w) THEN Whole(0) ELSE RatAdd(b_w[j], SumWeights(b_w, j + 1))

\* a faulty variant: the weights are left as assigned
normalizeWeightsUnscaled(b_w) ==
    IF b_w = ZeroWeights THEN [b_w EXCEPT ![1] = Whole(1)] ELSE b_w

\* loadFbx, "Normalize bone weights, default to 1.0 for root bone if no weights"
normalizeWeights(b_w) ==
    IF b_w = ZeroWeights
    THEN [b_w EXCEPT ![1] = Whole(1)]
    ELSE LET sum == SumWeights(b_w, 1)
         IN  IF sum # Whole(1)
             THEN [j \in 1..Len(b_w) |-> RatDiv(b_w[j], sum)]
             ELSE b_w

\* loadFbx, the body of the loop over scene->mMeshes for mesh number m
loadMesh(st, sc, m) ==
    LET aimesh == sc.meshes[m]
    IN  IF aimesh.bones = <<>> THEN st
        ELSE LET fresh == [st EXCEPT
                     !.vertices = @ \o [vi \in 1..aimesh.nverts |-> <<m, vi - 1>>],
                     !.bone_ids = [vi \in 1..aimesh.nverts |-> ZeroIDs],
                     !.bone_weights = [vi \in 1..aimesh.nverts |-> ZeroWeights]]
                 populated == populateBones(fresh, aimesh.bones)
                 object == [bone_ids |-> populated.bone_ids,
                            raw_weights |-> populated.bone_weights,
                            bone_weights |-> [vi \in 1..aimesh.nverts |->
                                normalizeWeights(populated.bone_weights[vi])]]
             IN  [populated EXCEPT !.objects = Append(@, object)]

RECURSIVE loadMeshes(_, _, _)
loadMeshes(st, sc, m) ==
    IF m > Len(sc.meshes) THEN st
    ELSE loadMeshes(loadMesh(st, sc, m), sc, m + 1)

----------------------------------------------------------------------------
(* Bone selection and convex decomposition *)

\* a faulty variant: every bone that has a child is selected
ImportantBonesAnyChild(bones) ==
    {bones[i].id : i \in {k \in 1..Len(bones) : Len(bones[k].children) > 0}}

\* decomposeSkeleton: the bones with more than one child
ImportantBones(bones) ==
    {bones[i].id : i \in {k \in 1..Len(bones) : Len(bones[k].children) > 1}}

\* decomposeSkeleton: vertex_to_boneID_map_.at(i) throws std::out_of_range for
\* a vertex index that is no key of the map
DecomposeThrows(vertices, vertex_to_boneID_map) ==
    \E i \in 0..(Len(vertices) - 1) : i \notin DOMAIN vertex_to_boneID_map

\* decomposeSkeleton: bone_to_meshes[bone], the vertices gathered for a bone
\* (vertex i once for each time the bone is listed for i)
RECURSIVE PointsOf(_, _, _, _)
PointsOf(vertices, vertex_to_boneID_map, bone, i) ==
    IF i >= Len(vertices) THEN <<>>
    ELSE LET listed == SelectSeq(vertex_to_boneID_map[i], LAMBDA b : b = bone)
         IN  [j \in 1..Len(listed) |-> vertices[i + 1]]
             \o PointsOf(vertices, vertex_to_boneID_map, bone, i + 1)

\* getRainbow(number): hue i / number for i < number
getRainbow(number) == [i \in 1..number |-> Rat(i - 1, number)]

\* a faulty variant: a part is bound to the bone numbered as the part is
decomposeSkeletonByIndex(bones, vertices, vertex_to_boneID_map, order) ==
    [color_idx \in 1..Len(order) |->
        [bone |-> order[color_idx],
         points |-> PointsOf(vertices, vertex_to_boneID_map, order[color_idx], 0),
         bone_ids |-> <<color_idx - 1, 0, 0, 0>>,
         bone_weights |-> <<Whole(1), Whole(0), Whole(0), Whole(0)>>,
         color |-> getRainbow(Len(order))[color_idx]]]

\* a faulty variant: a vertex is gathered only for the bone listed first for it
decomposeSkeletonDominant(bones, vertices, vertex_to_boneID_map, order) ==
    [color_idx \in 1..Len(order) |->
        LET first == SortedSeq({i \in 0..(Len(vertices) - 1) :
                                  vertex_to_boneID_map[i][1] = order[color_idx]})
        IN  [bone |-> order[color_idx],
             points |-> [j \in 1..Len(first) |-> vertices[first[j] + 1]],
             bone_ids |-> <<order[color_idx], 0, 0, 0>>,
             bone_weights |-> <<Whole(1), Whole(0), Whole(0), Whole(0)>>,
             color |-> getRainbow(Cardinality(ImportantBones(bones)))[color_idx]]]

\* decomposeSkeleton, the loop over important_bones taken in the given order:
\* every bone of the set emits an object, whose hull is built from the
\* points gathered for it (QuickHull returns an empty hull for no point)
decomposeSkeleton(bones, vertices, vertex_to_boneID_map, order) ==
    LET object_color == getRainbow(Cardinality(ImportantBones(bones)))
    IN  [color_idx \in 1..Len(order) |->
            [bone |-> order[color_idx],
             points |-> PointsOf(vertices, vertex_to_boneID_map, order[color_idx], 0),
             bone_ids |-> <<order[color_idx], 0, 0, 0>>,
             bone_weights |-> <<Whole(1), Whole(0), Whole(0), Whole(0)>>,
             color |-> object_color[color_idx]]]

\* the orders in which a std::unordered_set may hand out its elements
Orders(S) ==
    {o \in [1..Cardinality(S) -> S] : \A i, j \in 1..Cardinality(S) : i # j => o[i] # o[j]}

----------------------------------------------------------------------------
(* SkeletalMesh::loadFbx *)

\* loadFbx up to the call of decomposeSkeleton: the skeleton, its animations
\* (with the "Take 001" entry that operator[] inserts), the bind-pose
\* matrices and the skin data of every mesh with bones
loadFbxSkeleton(sc) ==
    LET skeleton == loadSkeleton(sc)
        loaded == IF sc.anims = <<>> THEN EmptyMap
                  ELSE loadAnimations(sc, skeleton.bone_map)
        animations == IF "Take 001" \in DOMAIN loaded THEN loaded
                      ELSE MapPut(loaded, "Take 001", DefaultAnimation)
        start == [bones |-> skeleton.bones,
                  bone_matrices |-> updateBoneMatrices(skeleton.bones,
                                        skeleton.bone_matrices, skeleton.num_bones),
                  bone_map |-> skeleton.bone_map,
                  num_bones |-> skeleton.num_bones,
                  animations |-> animations,
                  vertices |-> <<>>,
                  vertex_to_boneID_map |-> EmptyMap,
                  bone_ids |-> <<>>, bone_weights |-> <<>>,
                  objects |-> <<>>,
                  ub |-> skeleton.ub]
    IN  loadMeshes(start, sc, 1)

----------------------------------------------------------------------------
(* The scenes the model imports *)

ParentVectors ==
    {p \in [1..MaxNodes -> 0..(MaxNodes - 1)] :
        p[1] = 0 /\ \A i \in 2..MaxNodes : p[i] >= 1 /\ p[i] < i}

MeshVertices == 0..(MaxVerts - 1)

\* the weight every listed vertex of the imported meshes carries
SceneWeight == Rat(1, 2)

\* a mesh whose bones are the nodes of bone_set in ascending order, bone b
\* listing the vertices of influence[b] in ascending order
SkinnedMeshOf(bone_set, influence) ==
    LET names == SortedSeq(bone_set)
    IN  [nverts |-> MaxVerts,
         bones |-> [k \in 1..Len(names) |->
            LET vs == SortedSeq(influence[names[k]])
            IN  [name |-> names[k],
                 weights |-> [j \in 1..Len(vs) |-> [v |-> vs[j], w |-> SceneWeight]]]]]

Key(time, value) == [time |-> time, value |-> value]

NodeAnim(node, position_keys, rotation_keys, scale_keys) ==
    [node |-> node, position_keys |-> position_keys,
     rotation_keys |-> rotation_keys, scale_keys |-> scale_keys]

AnimWalk ==
    [name |-> "Walk", tps |-> 1, duration |-> 3,
     channels |-> << NodeAnim(1, <<Key(0, 0), Key(2, 4)>>, <<>>, <<Key(0, 2)>>),
                     NodeAnim(2, <<>>, <<Key(1, 1), Key(2, 3)>>, <<>>) >>]

AnimTake ==
    [name |-> "Take 001", tps |-> 2, duration |-> 4,
     channels |-> << NodeAnim(2, <<Key(0, 0), Key(3, 3)>>, <<>>, <<>>),
                     NodeAnim(3, <<>>, <<>>, <<Key(0, 1), Key(2, 3)>>) >>]

AnimIdle ==
    [name |-> "Idle", tps |-> 0, duration |-> 2,
     channels |-> << NodeAnim(1, <<>>, <<Key(0, 0), Key(1, 1)>>, <<>>) >>]

SceneAnimations == { <<>>, <<AnimWalk, AnimTake>>, <<AnimWalk, AnimIdle>> }

AnimationNames == {"Take 001", "Walk", "Idle", "Run"}

SceneMeshes ==
    UNION { {SkinnedMeshOf(bs, infl) : infl \in [bs -> SUBSET MeshVertices]} :
            bs \in SUBSET (1..MaxNodes) }

\* scenes without animations, of every hierarchy and every skin
SkinScenes ==
    {[parent |-> p, meshes |-> <<mesh>>, anims |-> <<>>] :
        p \in ParentVectors, mesh \in SceneMeshes}

\* animated scenes, of every hierarchy and every set of bones, each bone
\* listing every vertex
AnimatedScenes ==
    {[parent |-> p,
      meshes |-> <<SkinnedMeshOf(bs, [b \in bs |-> MeshVertices])>>,
      anims |-> an] :
        p \in ParentVectors, bs \in SUBSET (1..MaxNodes), an \in SceneAnimations}

\* the weights a bone of a weighted scene gives the vertices it lists
RawWeights == {Whole(0), Rat(1, 4), Rat(1, 2), Whole(1)}

\* the mark of a bone that lists no vertex
NotListed == Whole(0 - 1)

\* a mesh whose bones are all the nodes, bone b listing every vertex with the
\* weight weight_of[b], or no vertex
WeightedMeshOf(weight_of) ==
    LET vs == SortedSeq(MeshVertices)
    IN  [nverts |-> MaxVerts,
         bones |-> [k \in 1..MaxNodes |->
            [name |-> k,
             weights |-> IF weight_of[k] = NotListed THEN <<>>
                         ELSE [j \in 1..Len(vs) |-> [v |-> vs[j], w |-> weight_of[k]]]]]]

\* scenes without animations, of every hierarchy and every choice of weights
WeightScenes ==
    {[parent |-> p, meshes |-> <<WeightedMeshOf(weight_of)>>, anims |-> <<>>] :
        p \in ParentVectors,
        weight_of \in [1..MaxNodes -> RawWeights \cup {NotListed}]}

\* nodes of the deeper hierarchies: enough for a bone below a non-bone
\* sibling subtree and for a branching bone under the root bone
DeepNodes == MaxNodes + 1

DeepParentVectors ==
    {p \in [1..DeepNodes -> 0..(DeepNodes - 1)] :
        p[1] = 0 /\ \A i \in 2..DeepNodes : p[i] >= 1 /\ p[i] < i}

\* scenes without animations, of every deeper hierarchy and every non-empty
\* set of bones, one bone of the set listing every vertex
DeepScenes ==
    UNION {{[parent |-> p,
             meshes |-> <<SkinnedMeshOf(bs, [b \in bs |-> IF b = lister THEN MeshVertices
                                                         ELSE {}])>>,
             anims |-> <<>>] : lister \in bs, p \in DeepParentVectors} :
           bs \in SUBSET (1..DeepNodes)}

\* nodes of the branching hierarchies: enough for two bones with more than
\* one child each
BranchNodes == MaxNodes + 2

\* node 2 under node 1, every further node under node 1 or node 2
BranchParentVectors ==
    {p \in [1..BranchNodes -> 0..2] :
        p[1] = 0 /\ p[2] = 1 /\ \A i \in 3..BranchNodes : p[i] >= 1}

\* scenes without animations, of every branching hierarchy, every node a
\* bone, the first three bones listing every choice of vertices
BranchScenes ==
    {[parent |-> p,
      meshes |-> <<SkinnedMeshOf(1..BranchNodes,
                       [b \in 1..BranchNodes |-> IF b \in 1..3 THEN infl[b]
                                                 ELSE {}])>>,
      anims |-> <<>>] :
        p \in BranchParentVectors, infl \in [1..3 -> SUBSET MeshVertices]}

\* the meshes of a scene of several meshes: for every set of nodes the mesh
\* with those bones, each listing every vertex of the mesh (no bones: a mesh
\* without skin)
MultiMeshes == {SkinnedMeshOf(bs, [b \in bs |-> MeshVertices]) : bs \in SUBSET (1..MaxNodes)}

\* scenes without animations, of every hierarchy and every two meshes
MultiMeshScenes ==
    {[parent |-> p, meshes |-> <<m1, m2>>, anims |-> <<>>] :
        p \in ParentVectors, m1 \in MultiMeshes, m2 \in MultiMeshes}

\* the files uploaded through the GUI: a chain and a fan of the three nodes
\* that "Walk" and "Take 001" animate, every node a bone listing every vertex
UiAnimatedScenes ==
    {[parent |-> p,
      meshes |-> <<SkinnedMeshOf(1..Len(p), [b \in 1..Len(p) |-> MeshVertices])>>,
      anims |-> <<AnimWalk, AnimTake>>] : p \in {<<0, 1, 2>>, <<0, 1, 1>>}}

\* an import that yields no root node (the file could not be read)
FailedImport == [parent |-> <<>>, meshes |-> <<>>, anims |-> <<>>]

Scenes == SkinScenes \cup AnimatedScenes \cup {FailedImport}

----------------------------------------------------------------------------
(* Core: the application object behind the GUI.  core.loads counts the     *)
(* calls of loadNewMesh, and a collider records the count at which it was  *)
(* made; both are history, not fields of the code.                         *)

\* the mesh loads after which no further file is uploaded
MaxLoads == 2

\* collider_ == nullptr
NoCollider == [kind |-> "none", path |-> "", load |-> 0]

\* RenderOptions(): the members the GUI handlers and the draw read
RenderOptions == [is_skeletal |-> FALSE, play_animation |-> TRUE]

\* Core after construction; current_animation is the file-level static of
\* the GUI's animation radio buttons
NoCore ==
    [object_path |-> "", skinned_mesh |-> FALSE, static_mesh |-> FALSE,
     collider |-> NoCollider, render_options |-> RenderOptions,
     current_animation |-> 0, loads |-> 0]

\* a faulty variant: the collider of the mesh replaced is kept
loadNewMeshKeepCollider(c, path) ==
    [c EXCEPT !.object_path = path,
              !.skinned_mesh = FALSE,
              !.static_mesh = FALSE,
              !.render_options = RenderOptions,
              !.loads = @ + 1]

\* Core::loadNewMesh
loadNewMesh(c, path) ==
    [c EXCEPT !.object_path = path,
              !.skinned_mesh = FALSE,
              !.static_mesh = FALSE,
              !.collider = NoCollider,
              !.render_options = RenderOptions,
              !.loads = @ + 1]

\* the order in which the animation names are listed
AnimationOrder == <<"Take 001", "Walk", "Idle", "Run">>

\* Skeleton::animation_list_: the names of the animations of the skeleton
AnimationList(animations) ==
    SelectSeq(AnimationOrder, LAMBDA name : name \in DOMAIN animations)

\* Core::setAnimation on a skinned mesh: the bones and the current animation
\* it leaves
setAnimation(bones, animations, current_animation, index) ==
    LET animation_list == AnimationList(animations)
        selected == IF index >= 0 /\ index < Len(animation_list)
                    THEN IF current_animation # animation_list[index + 1]
                         THEN setCurrentAnimation(animations, current_animation,
                                                  animation_list[index + 1])
                         ELSE current_animation
                    ELSE current_animation
    IN  IF index = 0 - 1
        THEN [bones |-> resetToBindPose(bones), current_animation |-> NoAnimation]
        ELSE [bones |-> bones, current_animation |-> selected]

----------------------------------------------------------------------------
(* State machine: a scene is imported by loadFbx, then the Skeleton's      *)
(* operations are called in any order.                                     *)

\* the operation called last, with its string and integer argument
Called(op, arg, num) == [op |-> op, arg |-> arg, num |-> num]

\* no track sampled
NoTrack == [keys |-> <<>>, time |-> 0, value |-> Whole(0)]

Init ==
    /\ scene \in Scenes
    /\ status = "unloaded"
    /\ bones_ = <<>>
    /\ bone_matrices_ = <<>>
    /\ bone_map_ = EmptyMap
    /\ num_bones_ = 0
    /\ vertices_ = <<>>
    /\ vertex_to_boneID_map_ = EmptyMap
    /\ animations_ = EmptyMap
    /\ current_animation_ = NoAnimation
    /\ draw_mesh = <<>>
    /\ collision_mesh = <<>>
    /\ call = Called("none", "", 0)
    /\ sampler = NoTrack
    /\ core = NoCore

\* the process ends (an uncaught exception, or undefined behaviour that
\* faults): nothing is handed to the caller
Crash(op) ==
    /\ status' = "crashed"
    /\ call' = Called(op, "", 0)
    /\ UNCHANGED <<core, sampler, scene, bones_, bone_matrices_, bone_map_, num_bones_, vertices_,
                   vertex_to_boneID_map_, animations_, current_animation_, draw_mesh,
                   collision_mesh>>

\* SkeletalMesh::loadFbx.  faults: whether undefined behaviour met on the way
\* ends the process; order: the iteration order of important_bones.
LoadFbx ==
    /\ status = "unloaded"
    /\ scene.parent # <<>>
    /\ LET st == loadFbxSkeleton(scene)
       IN  \E faults \in BOOLEAN :
             IF (st.ub /\ faults) \/ DecomposeThrows(st.vertices, st.vertex_to_boneID_map)
             THEN Crash("loadFbx")
             ELSE \E order \in Orders(ImportantBones(st.bones)) :
                    /\ status' = "loaded"
                    /\ bones_' = st.bones
                    /\ bone_matrices_' =
                           updateBoneMatrices(st.bones, st.bone_matrices, st.num_bones)
                    /\ bone_map_' = st.bone_map
                    /\ num_bones_' = st.num_bones
                    /\ vertices_' = st.vertices
                    /\ vertex_to_boneID_map_' = st.vertex_to_boneID_map
                    /\ animations_' = st.animations
                    /\ current_animation_' = NoAnimation
                    /\ draw_mesh' = st.objects
                    /\ collision_mesh' = decomposeSkeleton(st.bones, st.vertices,
                                             st.vertex_to_boneID_map, order)
                    /\ call' = Called("loadFbx", "", 0)
                    /\ UNCHANGED <<core, sampler, scene>>

\* SkeletalMesh::loadFbx when the import fails: the error is reported and a
\* default SkinnedMesh returned
LoadFbxFails ==
    /\ status = "unloaded"
    /\ scene.parent = <<>>
    /\ status' = "failed"
    /\ call' = Called("loadFbx", "", 0)
    /\ UNCHANGED <<core, sampler, scene, bones_, bone_matrices_, bone_map_, num_bones_, vertices_,
                   vertex_to_boneID_map_, animations_, current_animation_, draw_mesh,
                   collision_mesh>>

\* Skeleton::setCurrentAnimation
SetCurrentAnimation(animation_name) ==
    /\ status = "loaded"
    /\ current_animation_' =
           setCurrentAnimation(animations_, current_animation_, animation_name)
    /\ call' = Called("setCurrentAnimation", animation_name, 0)
    /\ UNCHANGED <<core, sampler, scene, status, bones_, bone_matrices_, bone_map_, num_bones_,
                   vertices_, vertex_to_boneID_map_, animations_, draw_mesh,
                   collision_mesh>>

\* Skeleton::playCurrentAnimation
PlayCurrentAnimation(current_time) ==
    /\ status = "loaded"
    /\ LET played == IF current_animation_ # NoAnimation
                     THEN playChannels(bones_, animations_[current_animation_],
                                       current_time)
                     ELSE bones_
       IN  /\ bones_' = played
           /\ bone_matrices_' = updateBoneMatrices(played, bone_matrices_, num_bones_)
    /\ call' = Called("playCurrentAnimation", "", current_time)
    /\ UNCHANGED <<core, sampler, scene, status, bone_map_, num_bones_, vertices_,
                   vertex_to_boneID_map_, animations_, current_animation_, draw_mesh,
                   collision_mesh>>

\* Skeleton::resetToBindPose
ResetToBindPose ==
    /\ status = "loaded"
    /\ bones_' = resetToBindPose(bones_)
    /\ call' = Called("resetToBindPose", "", 0)
    /\ UNCHANGED <<core, sampler, scene, status, bone_matrices_, bone_map_, num_bones_, vertices_,
                   vertex_to_boneID_map_, animations_, current_animation_, draw_mesh,
                   collision_mesh>>

\* Skeleton::updateBoneMatrices
UpdateBoneMatrices ==
    /\ status = "loaded"
    /\ bone_matrices_' = updateBoneMatrices(bones_, bone_matrices_, num_bones_)
    /\ call' = Called("updateBoneMatrices", "", 0)
    /\ UNCHANGED <<core, sampler, scene, status, bones_, bone_map_, num_bones_, vertices_,
                   vertex_to_boneID_map_, animations_, current_animation_, draw_mesh,
                   collision_mesh>>

\* Core::setAnimation(-1): the animation is switched off and the pose reset
SetAnimationOff ==
    /\ status = "loaded"
    /\ current_animation_' = NoAnimation
    /\ bones_' = resetToBindPose(bones_)
    /\ call' = Called("setAnimationOff", "", 0)
    /\ UNCHANGED <<core, sampler, scene, status, bone_matrices_, bone_map_, num_bones_, vertices_,
                   vertex_to_boneID_map_, animations_, draw_mesh, collision_mesh>>

Next ==
    \/ LoadFbx
    \/ LoadFbxFails
    \/ \E animation_name \in AnimationNames : SetCurrentAnimation(animation_name)
    \/ \E current_time \in 0..MaxTime : PlayCurrentAnimation(current_time)
    \/ ResetToBindPose
    \/ UpdateBoneMatrices
    \/ SetAnimationOff

Spec == Init /\ [][Next]_vars

----------------------------------------------------------------------------
(* State machine of a Skeleton built by direct addBone calls *)

InitApi ==
    /\ scene = FailedImport
    /\ status = "loaded"
    /\ bones_ = <<>>
    /\ bone_matrices_ = <<>>
    /\ bone_map_ = EmptyMap
    /\ num_bones_ = 0
    /\ vertices_ = <<>>
    /\ vertex_to_boneID_map_ = EmptyMap
    /\ animations_ = EmptyMap
    /\ current_animation_ = NoAnimation
    /\ draw_mesh = <<>>
    /\ collision_mesh = <<>>
    /\ call = Called("none", "", 0)
    /\ sampler = NoTrack
    /\ core = NoCore

\* Skeleton::addBone called with the next free id, as constructSkeleton calls
\* it.  faults: whether the out-of-range bones_[parent_id] ends the process.
ApiAddBone(bone_name, parent_id, local_transform) ==
    /\ status = "loaded"
    /\ Len(bones_) < MaxBones
    /\ LET sk == AddBone([bones |-> bones_, bone_matrices |-> bone_matrices_,
                          bone_map |-> bone_map_, num_bones |-> num_bones_,
                          ub |-> FALSE],
                         bone_name, Len(bones_), parent_id,
                         OffsetMatrix(bone_name), local_transform)
       IN  \E faults \in BOOLEAN :
             /\ status' = IF sk.ub /\ faults THEN "crashed" ELSE "loaded"
             /\ bones_' = sk.bones
             /\ bone_matrices_' = sk.bone_matrices
             /\ bone_map_' = sk.bone_map
             /\ num_bones_' = sk.num_bones
    /\ call' = Called("addBone", "", parent_id)
    /\ UNCHANGED <<core, sampler, scene, vertices_, vertex_to_boneID_map_, animations_,
                   current_animation_, draw_mesh, collision_mesh>>

NextApi ==
    \/ \E bone_name \in 1..2, parent_id \in (0 - 2)..MaxBones,
          local_transform \in {Identity, Generator("translate", 1, 1)} :
            ApiAddBone(bone_name, parent_id, local_transform)
    \/ UpdateBoneMatrices
    \/ ResetToBindPose
    \/ \E animation_name \in AnimationNames : SetCurrentAnimation(animation_name)
    \/ \E current_time \in 0..MaxTime : PlayCurrentAnimation(current_time)

SpecApi == InitApi /\ [][NextApi]_vars

----------------------------------------------------------------------------
(* State machine of the import of weighted scenes *)

InitSkin ==
    /\ scene \in WeightScenes
    /\ status = "unloaded"
    /\ bones_ = <<>>
    /\ bone_matrices_ = <<>>
    /\ bone_map_ = EmptyMap
    /\ num_bones_ = 0
    /\ vertices_ = <<>>
    /\ vertex_to_boneID_map_ = EmptyMap
    /\ animations_ = EmptyMap
    /\ current_animation_ = NoAnimation
    /\ draw_mesh = <<>>
    /\ collision_mesh = <<>>
    /\ call = Called("none", "", 0)
    /\ sampler = NoTrack
    /\ core = NoCore

NextSkin ==
    \/ LoadFbx
    \/ UpdateBoneMatrices
    \/ ResetToBindPose

SpecSkin == InitSkin /\ [][NextSkin]_vars

----------------------------------------------------------------------------
(* State machine of the import of scenes with deeper hierarchies *)

InitDeep ==
    /\ scene \in DeepScenes
    /\ status = "unloaded"
    /\ bones_ = <<>>
    /\ bone_matrices_ = <<>>
    /\ bone_map_ = EmptyMap
    /\ num_bones_ = 0
    /\ vertices_ = <<>>
    /\ vertex_to_boneID_map_ = EmptyMap
    /\ animations_ = EmptyMap
    /\ current_animation_ = NoAnimation
    /\ draw_mesh = <<>>
    /\ collision_mesh = <<>>
    /\ call = Called("none", "", 0)
    /\ sampler = NoTrack
    /\ core = NoCore

NextDeep ==
    \/ LoadFbx
    \/ UpdateBoneMatrices
    \/ ResetToBindPose

SpecDeep == InitDeep /\ [][NextDeep]_vars

----------------------------------------------------------------------------
(* State machine of the import of scenes with two branching bones *)

InitBranch ==
    /\ scene \in BranchScenes
    /\ status = "unloaded"
    /\ bones_ = <<>>
    /\ bone_matrices_ = <<>>
    /\ bone_map_ = EmptyMap
    /\ num_bones_ = 0
    /\ vertices_ = <<>>
    /\ vertex_to_boneID_map_ = EmptyMap
    /\ animations_ = EmptyMap
    /\ current_animation_ = NoAnimation
    /\ draw_mesh = <<>>
    /\ collision_mesh = <<>>
    /\ call = Called("none", "", 0)
    /\ sampler = NoTrack
    /\ core = NoCore

NextBranch ==
    \/ LoadFbx
    \/ UpdateBoneMatrices
    \/ ResetToBindPose

SpecBranch == InitBranch /\ [][NextBranch]_vars

----------------------------------------------------------------------------
(* State machine of the import of scenes with two meshes *)

InitMulti ==
    /\ scene \in MultiMeshScenes
    /\ status = "unloaded"
    /\ bones_ = <<>>
    /\ bone_matrices_ = <<>>
    /\ bone_map_ = EmptyMap
    /\ num_bones_ = 0
    /\ vertices_ = <<>>
    /\ vertex_to_boneID_map_ = EmptyMap
    /\ animations_ = EmptyMap
    /\ current_animation_ = NoAnimation
    /\ draw_mesh = <<>>
    /\ collision_mesh = <<>>
    /\ call = Called("none", "", 0)
    /\ sampler = NoTrack
    /\ core = NoCore

NextMulti ==
    \/ LoadFbx
    \/ UpdateBoneMatrices
    \/ ResetToBindPose

SpecMulti == InitMulti /\ [][NextMulti]_vars

----------------------------------------------------------------------------
(* State machine of the GUI: files are uploaded and decomposed, an          *)
(* animation is selected, and frames are drawn.  A handler is the whole     *)
(* pass of guiStatic or guiSkeletal in which the click is handled.          *)

\* Core::draw: the GUI pass of a frame follows the frame's drawCurrentObject
FrameDrawn == call.op = "drawCurrentObject"

InitUi ==
    /\ scene = FailedImport
    /\ status = "unloaded"
    /\ bones_ = <<>>
    /\ bone_matrices_ = <<>>
    /\ bone_map_ = EmptyMap
    /\ num_bones_ = 0
    /\ vertices_ = <<>>
    /\ vertex_to_boneID_map_ = EmptyMap
    /\ animations_ = EmptyMap
    /\ current_animation_ = NoAnimation
    /\ draw_mesh = <<>>
    /\ collision_mesh = <<>>
    /\ call = Called("none", "", 0)
    /\ sampler = NoTrack
    /\ core = NoCore

\* Core::guiStatic, "Upload OBJ File" clicked and a file chosen: the skinned
\* mesh held, with its skeleton, is released
UploadObj ==
    /\ status # "crashed"
    /\ FrameDrawn
    /\ core.loads < MaxLoads
    /\ core' = [loadNewMesh(core, "mesh.obj") EXCEPT !.static_mesh = TRUE,
                                                  !.render_options.is_skeletal = FALSE]
    /\ status' = "unloaded"
    /\ bones_' = <<>>
    /\ bone_matrices_' = <<>>
    /\ bone_map_' = EmptyMap
    /\ num_bones_' = 0
    /\ vertices_' = <<>>
    /\ vertex_to_boneID_map_' = EmptyMap
    /\ animations_' = EmptyMap
    /\ current_animation_' = NoAnimation
    /\ draw_mesh' = <<>>
    /\ collision_mesh' = <<>>
    /\ call' = Called("uploadObj", "", 0)
    /\ UNCHANGED <<sampler, scene>>

\* Core::guiSkeletal, "Upload FBX File" clicked and the file of scene sc
\* chosen: loadNewMesh, loadFbx, and the rest of the pass, which applies the
\* animation selected in the GUI
UploadFbx(sc) ==
    /\ status # "crashed"
    /\ FrameDrawn
    /\ core.loads < MaxLoads
    /\ scene' = sc
    /\ call' = Called("uploadFbx", "", 0)
    /\ UNCHANGED sampler
    /\ IF sc.parent = <<>>
       THEN /\ status' = "failed"
            /\ core' = [loadNewMesh(core, "mesh.fbx") EXCEPT
                            !.skinned_mesh = TRUE,
                            !.render_options.is_skeletal = TRUE]
            /\ bones_' = <<>>
            /\ bone_matrices_' = <<>>
            /\ bone_map_' = EmptyMap
            /\ num_bones_' = 0
            /\ vertices_' = <<>>
            /\ vertex_to_boneID_map_' = EmptyMap
            /\ animations_' = EmptyMap
            /\ current_animation_' = NoAnimation
            /\ draw_mesh' = <<>>
            /\ collision_mesh' = <<>>
       ELSE \E st \in {loadFbxSkeleton(sc)} :
                \E faults \in BOOLEAN :
                  IF (st.ub /\ faults) \/ DecomposeThrows(st.vertices, st.vertex_to_boneID_map)
                  THEN /\ status' = "crashed"
                       /\ core' = loadNewMesh(core, "mesh.fbx")
                       /\ bones_' = <<>>
                       /\ bone_matrices_' = <<>>
                       /\ bone_map_' = EmptyMap
                       /\ num_bones_' = 0
                       /\ vertices_' = <<>>
                       /\ vertex_to_boneID_map_' = EmptyMap
                       /\ animations_' = EmptyMap
                       /\ current_animation_' = NoAnimation
                       /\ draw_mesh' = <<>>
                       /\ collision_mesh' = <<>>
                  ELSE \E order \in Orders(ImportantBones(st.bones)) :
                         LET applied == setAnimation(st.bones, st.animations, NoAnimation,
                                                     core.current_animation)
                         IN  /\ status' = "loaded"
                             /\ core' = [loadNewMesh(core, "mesh.fbx") EXCEPT
                                             !.skinned_mesh = TRUE,
                                             !.render_options.is_skeletal = TRUE]
                             /\ bones_' = applied.bones
                             /\ bone_matrices_' =
                                    updateBoneMatrices(st.bones, st.bone_matrices, st.num_bones)
                             /\ bone_map_' = st.bone_map
                             /\ num_bones_' = st.num_bones
                             /\ vertices_' = st.vertices
                             /\ vertex_to_boneID_map_' = st.vertex_to_boneID_map
                             /\ animations_' = st.animations
                             /\ current_animation_' = applied.current_animation
                             /\ draw_mesh' = st.objects
                             /\ collision_mesh' = decomposeSkeleton(st.bones, st.vertices,
                                                      st.vertex_to_boneID_map, order)

\* Core::guiStatic, "Decompose Static Mesh" clicked
DecomposeStatic ==
    /\ status # "crashed"
    /\ FrameDrawn
    /\ core.static_mesh
    /\ core' = [core EXCEPT !.collider = [kind |-> "static", path |-> core.object_path,
                                          load |-> core.loads]]
    /\ call' = Called("decomposeStatic", "", 0)
    /\ UNCHANGED <<sampler, scene, status, bones_, bone_matrices_, bone_map_, num_bones_,
                   vertices_, vertex_to_boneID_map_, animations_, current_animation_,
                   draw_mesh, collision_mesh>>

\* Core::guiSkeletal, "Decompose Skeletal Mesh" clicked; the rest of the pass
\* applies the animation selected in the GUI
DecomposeSkeletal ==
    /\ status # "crashed"
    /\ FrameDrawn
    /\ core.skinned_mesh
    /\ core' = [core EXCEPT !.collider = [kind |-> "skeletal", path |-> core.object_path,
                                          load |-> core.loads]]
    /\ LET applied == setAnimation(bones_, animations_, current_animation_,
                                   core.current_animation)
       IN  /\ bones_' = applied.bones
           /\ current_animation_' = applied.current_animation
    /\ call' = Called("decomposeSkeletal", "", 0)
    /\ UNCHANGED <<sampler, scene, status, bone_matrices_, bone_map_, num_bones_,
                   vertices_, vertex_to_boneID_map_, animations_, draw_mesh, collision_mesh>>

\* Core::guiSkeletal, a radio button of the animations clicked ("Off" is
\* index -1); the pass then calls setAnimation with the index
SelectAnimation(index) ==
    /\ status # "crashed"
    /\ FrameDrawn
    /\ core.skinned_mesh
    /\ index < Len(AnimationList(animations_))
    /\ core' = [core EXCEPT !.current_animation = index]
    /\ LET applied == setAnimation(bones_, animations_, current_animation_, index)
       IN  /\ bones_' = applied.bones
           /\ current_animation_' = applied.current_animation
    /\ call' = Called("selectAnimation", "", index)
    /\ UNCHANGED <<sampler, scene, status, bone_matrices_, bone_map_, num_bones_,
                   vertices_, vertex_to_boneID_map_, animations_, draw_mesh, collision_mesh>>

\* Core::guiSkeletal, the "Play animation" checkbox clicked, after the pass
\* called setAnimation with the index selected
TogglePlayAnimation ==
    /\ status # "crashed"
    /\ FrameDrawn
    /\ core.skinned_mesh
    /\ core' = [core EXCEPT !.render_options.play_animation = ~@]
    /\ LET applied == setAnimation(bones_, animations_, current_animation_,
                                   core.current_animation)
       IN  /\ bones_' = applied.bones
           /\ current_animation_' = applied.current_animation
    /\ call' = Called("togglePlayAnimation", "", 0)
    /\ UNCHANGED <<sampler, scene, status, bone_matrices_, bone_map_, num_bones_,
                   vertices_, vertex_to_boneID_map_, animations_, draw_mesh, collision_mesh>>

\* Core::drawCurrentObject: a skinned mesh is advanced by playCurrentAnimation
\* only if "Play animation" is checked, then mesh and collider are drawn with
\* the final bone matrices of the skeleton
DrawCurrentObject(delta_time) ==
    /\ status # "crashed"
    /\ LET plays == /\ core.render_options.is_skeletal
                    /\ core.skinned_mesh
                    /\ core.render_options.play_animation
           played == IF plays /\ current_animation_ # NoAnimation
                     THEN playChannels(bones_, animations_[current_animation_], delta_time)
                     ELSE bones_
       IN  /\ bones_' = played
           /\ bone_matrices_' = IF plays
                                THEN updateBoneMatrices(played, bone_matrices_, num_bones_)
                                ELSE bone_matrices_
    /\ call' = Called("drawCurrentObject", "", delta_time)
    /\ UNCHANGED <<core, sampler, scene, status, bone_map_, num_bones_, vertices_,
                   vertex_to_boneID_map_, animations_, current_animation_, draw_mesh,
                   collision_mesh>>

NextUi ==
    \/ UploadObj
    \/ \E sc \in UiAnimatedScenes \cup {FailedImport} : UploadFbx(sc)
    \/ DecomposeStatic
    \/ DecomposeSkeletal
    \/ \E index \in (0 - 1)..(Cardinality(AnimationNames) - 1) : SelectAnimation(index)
    \/ TogglePlayAnimation
    \/ \E delta_time \in {0, MaxTime} : DrawCurrentObject(delta_time)

SpecUi == InitUi /\ [][NextUi]_vars

----------------------------------------------------------------------------
(* State machine of the interpolation functions applied to a key track *)

\* the values of the keys of a sampled track
KeyValues == {0, 1, 3}

\* the tracks: up to MaxKeys keys, key times ascending (equal times allowed)
Tracks ==
    UNION {{k \in [1..len -> [time : 0..MaxKeyTime, value : KeyValues]] :
                \A i \in 1..(len - 1) : k[i].time <= k[i + 1].time} : len \in 0..MaxKeys}

\* the sample times: from before the first possible key to past the last
SampleTimes == (0 - 1)..(MaxKeyTime + 1)

InitSampler ==
    /\ sampler \in [keys : Tracks, time : SampleTimes, value : {Whole(0)}]
    /\ scene = FailedImport
    /\ status = "unloaded"
    /\ bones_ = <<>>
    /\ bone_matrices_ = <<>>
    /\ bone_map_ = EmptyMap
    /\ num_bones_ = 0
    /\ vertices_ = <<>>
    /\ vertex_to_boneID_map_ = EmptyMap
    /\ animations_ = EmptyMap
    /\ current_animation_ = NoAnimation
    /\ draw_mesh = <<>>
    /\ collision_mesh = <<>>
    /\ call = Called("none", "", 0)
    /\ core = NoCore

\* interpolatePosition applied to the track at the sample time
InterpolatePosition ==
    /\ sampler' = [sampler EXCEPT !.value = interpolatePosition(sampler.keys, sampler.time)]
    /\ call' = Called("interpolatePosition", "", sampler.time)
    /\ UNCHANGED <<core, scene, status, bones_, bone_matrices_, bone_map_, num_bones_,
                   vertices_, vertex_to_boneID_map_, animations_, current_animation_,
                   draw_mesh, collision_mesh>>

\* interpolateRotation applied to the track at the sample time
InterpolateRotation ==
    /\ sampler' = [sampler EXCEPT !.value = interpolateRotation(sampler.keys, sampler.time)]
    /\ call' = Called("interpolateRotation", "", sampler.time)
    /\ UNCHANGED <<core, scene, status, bones_, bone_matrices_, bone_map_, num_bones_,
                   vertices_, vertex_to_boneID_map_, animations_, current_animation_,
                   draw_mesh, collision_mesh>>

\* interpolateScale applied to the track at the sample time
InterpolateScale ==
    /\ sampler' = [sampler EXCEPT !.value = interpolateScale(sampler.keys, sampler.time)]
    /\ call' = Called("interpolateScale", "", sampler.time)
    /\ UNCHANGED <<core, scene, status, bones_, bone_matrices_, bone_map_, num_bones_,
                   vertices_, vertex_to_boneID_map_, animations_, current_animation_,
                   draw_mesh, collision_mesh>>

NextSampler ==
    \/ InterpolatePosition
    \/ InterpolateRotation
    \/ InterpolateScale

SpecSampler == InitSampler /\ [][NextSampler]_vars

----------------------------------------------------------------------------
(* Properties *)

Loaded == status = "loaded"

BoneIds == 0..(Len(bones_) - 1)

\* the transform of a bone composed from its own parent chain, root first
RECURSIVE ChainTransform(_, _)
ChainTransform(bones, b) ==
    IF bones[b + 1].parent_id = RootSentinel THEN bones[b + 1].local_transform
    ELSE MatMul(ChainTransform(bones, bones[b + 1].parent_id), bones[b + 1].local_transform)

\* the last operation recomputed the final bone matrices
MatricesFresh == call.op \in {"loadFbx", "updateBoneMatrices", "playCurrentAnimation"}

InBindPose == \A b \in BoneIds : bones_[b + 1].local_transform = bones_[b + 1].bind_pose_transform

\* C1: after updateBoneMatrices the final matrix of every bone is the product
\* of the local transforms along its parent chain, root first, times the
\* bone's offset matrix
C1_FinalMatrixIsChainTimesOffset ==
    (Loaded /\ MatricesFresh) =>
        \A b \in BoneIds :
            bone_matrices_[b + 1] =
                MatMul(ChainTransform(bones_, b), bones_[b + 1].offset_matrix)

\* C1 case: matrices just recomputed for a three-bone chain in an animated pose
C1_Witness ==
    /\ Loaded
    /\ call.op = "playCurrentAnimation"
    /\ \E b \in BoneIds :
         /\ bones_[b + 1].parent_id # RootSentinel
         /\ bones_[bones_[b + 1].parent_id + 1].parent_id # RootSentinel
         /\ bones_[b + 1].local_transform # bones_[b + 1].bind_pose_transform
         /\ bone_matrices_[b + 1] # Identity

\* C2: a skeleton built by constructSkeleton and left in its bind pose has the
\* identity as final matrix of every bone once the matrices are recomputed
C2_BindPoseRoundTrip ==
    (Loaded /\ MatricesFresh /\ InBindPose) =>
        \A b \in BoneIds : bone_matrices_[b + 1] = Identity

\* C2 case: a freshly loaded skeleton with a root, a child and a grandchild
C2_Witness ==
    /\ Loaded
    /\ call.op = "loadFbx"
    /\ InBindPose
    /\ \E b \in BoneIds :
         /\ bones_[b + 1].parent_id # RootSentinel
         /\ bones_[bones_[b + 1].parent_id + 1].parent_id # RootSentinel
         /\ bone_matrices_[b + 1] = Identity

\* the scene names no node that is a bone
NoRootBone ==
    /\ scene.parent # <<>>
    /\ findRootBone(scene, 1, SceneBoneNames(scene)) = EmptyName

\* C3: loading a scene without any node named as a bone ends as a reported
\* load failure, no skeleton being returned
C3_NoRootBoneFailsLoad ==
    (call.op = "loadFbx" /\ NoRootBone) => status = "failed"

\* C4: addBone with a parent_id that is neither -1 nor the index of an
\* existing bone appends no bone and touches no child list
C4_InvalidParentRejected ==
    [][(/\ call'.op = "addBone"
        /\ call'.num # RootSentinel
        /\ ~(call'.num >= 0 /\ call'.num < Len(bones_)))
       => bones_' = bones_]_vars

\* C5: no part is emitted for a bone that gathered no vertex
C5_NoPartWithoutVertices ==
    Loaded => \A i \in DOMAIN collision_mesh : collision_mesh[i].points # <<>>

\* the bones that are the parent of more than one bone
BranchingBones ==
    {b \in BoneIds : Cardinality({c \in BoneIds : bones_[c + 1].parent_id = b}) > 1}

C7_UnknownNameIsNoOp ==
    [][(call'.op = "setCurrentAnimation" /\ call'.arg \notin DOMAIN animations_)
       => (current_animation_' = current_animation_ /\ animations_' = animations_)]_vars

\* C7 case: an unknown name was requested while an animation is active
C7_Witness ==
    /\ Loaded
    /\ call.op = "setCurrentAnimation"
    /\ call.arg \notin DOMAIN animations_
    /\ current_animation_ # NoAnimation

\* C8: setCurrentAnimation changes no local transform; playCurrentAnimation
\* overwrites the local transform of exactly the bones with a channel in the
\* active animation and leaves every other bone as it was
C8_CarryOver ==
    [][/\ call'.op = "setCurrentAnimation" => bones_' = bones_
       /\ (call'.op = "playCurrentAnimation" /\ current_animation_ # NoAnimation) =>
            LET animation == animations_[current_animation_]
                animation_time == Fmod(call'.num * animation.ticks_per_second,
                                       animation.duration)
            IN  \A b \in BoneIds :
                  IF b \in DOMAIN animation.channels
                  THEN bones_'[b + 1] =
                         [bones_[b + 1] EXCEPT !.local_transform =
                             calculateTransform(animation.channels[b], animation_time)]
                  ELSE bones_'[b + 1] = bones_[b + 1]]_vars

\* C8 case: after a switch of animation and a play, a bone without a channel
\* in the active animation still holds a pose that is not its bind pose
C8_Witness ==
    /\ Loaded
    /\ call.op = "playCurrentAnimation"
    /\ current_animation_ # NoAnimation
    /\ \E b, c \in BoneIds :
         /\ b \notin DOMAIN animations_[current_animation_].channels
         /\ bones_[b + 1].local_transform # bones_[b + 1].bind_pose_transform
         /\ c \in DOMAIN animations_[current_animation_].channels
         /\ bones_[c + 1].local_transform # bones_[c + 1].bind_pose_transform

\* C9: resetToBindPose sets every local transform to the bind-pose snapshot
\* and leaves the final matrices, the current animation and the animation
\* map unchanged
C9_ResetToBindPoseFrame ==
    [][call'.op = "resetToBindPose" =>
         /\ Len(bones_') = Len(bones_)
         /\ \A b \in BoneIds :
              bones_'[b + 1] = [bones_[b + 1] EXCEPT !.local_transform =
                                    bones_[b + 1].bind_pose_transform]
         /\ bone_matrices_' = bone_matrices_
         /\ current_animation_' = current_animation_
         /\ animations_' = animations_]_vars

\* C9 case: a reset with an animation active and final matrices of an animated pose
C9_Witness ==
    /\ Loaded
    /\ call.op = "resetToBindPose"
    /\ current_animation_ # NoAnimation
    /\ InBindPose
    /\ \E b \in BoneIds :
         /\ bones_[b + 1].parent_id # RootSentinel
         /\ bone_matrices_[b + 1] # Identity

\* the local transforms playCurrentAnimation(current_time) leaves
LocalsAfterPlay(current_time) ==
    LET played == playChannels(bones_, animations_[current_animation_], current_time)
    IN  [i \in 1..Len(played) |-> played[i].local_transform]

\* C10: with an active animation of duration D > 0 and r ticks per second,
\* playing at t and at t + k * D / r leaves the same local transforms
C10_Wraparound ==
    (Loaded /\ current_animation_ # NoAnimation) =>
        LET animation == animations_[current_animation_]
        IN  animation.duration > 0 =>
              \A t, u \in 0..MaxTime :
                (t <= u /\ ((u - t) * animation.ticks_per_second) % animation.duration = 0)
                    => LocalsAfterPlay(t) = LocalsAfterPlay(u)

\* C10 case: a play at a time past the end of the animation, leaving an
\* animated pose that a play one period earlier leaves as well
C10_Witness ==
    /\ Loaded
    /\ call.op = "playCurrentAnimation"
    /\ current_animation_ # NoAnimation
    /\ LET animation == animations_[current_animation_]
       IN  /\ animation.duration > 0
           /\ call.num * animation.ticks_per_second >= animation.duration
           /\ \E t \in 0..MaxTime :
                /\ t < call.num
                /\ ((call.num - t) * animation.ticks_per_second) % animation.duration = 0
                /\ LocalsAfterPlay(t) = [i \in 1..Len(bones_) |-> bones_[i].local_transform]
    /\ ~InBindPose

\* a track was sampled
TrackSampled ==
    call.op \in {"interpolatePosition", "interpolateRotation", "interpolateScale"}

\* the interpolation of keys i and i + 1 of the sampled track at the sample time
Interpolated(i) ==
    LET key1 == sampler.keys[i]
        key2 == sampler.keys[i + 1]
    IN  Rat(key1.value * (key2.time - key1.time)
              + (key2.value - key1.value) * (sampler.time - key1.time),
            key2.time - key1.time)

\* C11: a track of two or more keys sampled at a time not before its first
\* key gives the last key's value at or past the last key, and otherwise the
\* interpolation of the two keys that enclose the time
C11_SampleWithinTrack ==
    (TrackSampled /\ Len(sampler.keys) >= 2 /\ sampler.time >= sampler.keys[1].time) =>
        IF sampler.time >= sampler.keys[Len(sampler.keys)].time
        THEN sampler.value = Whole(sampler.keys[Len(sampler.keys)].value)
        ELSE \E i \in 1..(Len(sampler.keys) - 1) :
               /\ sampler.keys[i].time <= sampler.time
               /\ sampler.time < sampler.keys[i + 1].time
               /\ sampler.value = Interpolated(i)

\* C11 case: three keys sampled strictly between the second and the third,
\* the value lying strictly between theirs
C11_Witness ==
    /\ call.op = "interpolatePosition"
    /\ Len(sampler.keys) = 3
    /\ sampler.keys[2].time < sampler.time
    /\ sampler.time < sampler.keys[3].time
    /\ sampler.keys[1].value # sampler.keys[2].value
    /\ sampler.value = Interpolated(2)
    /\ sampler.value.d # 1

\* C12: a track of two or more keys sampled before its first key gives the
\* first key's value
C12_SampleBeforeFirstKey ==
    (TrackSampled /\ Len(sampler.keys) >= 2 /\ sampler.time < sampler.keys[1].time) =>
        sampler.value = Whole(sampler.keys[1].value)

RatMul(x, y) == Rat(x.n * y.n, x.d * y.d)

\* the skinned vertices of the draw mesh: object o, vertex vi
SkinnedVertices ==
    {ov \in (DOMAIN draw_mesh) \X (1..MaxVerts) : ov[2] \in DOMAIN draw_mesh[ov[1]].bone_weights}

RawWeightsOf(ov) == draw_mesh[ov[1]].raw_weights[ov[2]]
BoneWeightsOf(ov) == draw_mesh[ov[1]].bone_weights[ov[2]]
BoneIDsOf(ov) == draw_mesh[ov[1]].bone_ids[ov[2]]

\* C13: the normalised weights of a vertex with a non-zero raw weight sum to
\* one and are in the ratios of the raw weights
C13_WeightsNormalised ==
    \A ov \in SkinnedVertices :
        RawWeightsOf(ov) # ZeroWeights =>
            /\ RatAdd(RatAdd(BoneWeightsOf(ov)[1], BoneWeightsOf(ov)[2]),
                      RatAdd(BoneWeightsOf(ov)[3], BoneWeightsOf(ov)[4])) = Whole(1)
            /\ \A j, k \in 1..MAX_BONES_PER_VERTEX :
                 RatMul(BoneWeightsOf(ov)[j], RawWeightsOf(ov)[k])
                     = RatMul(BoneWeightsOf(ov)[k], RawWeightsOf(ov)[j])

\* C13 case: a loaded vertex with two different non-zero raw weights that
\* normalisation rescaled
C13_Witness ==
    /\ Loaded
    /\ \E ov \in SkinnedVertices :
         /\ RawWeightsOf(ov)[1] # Whole(0)
         /\ RawWeightsOf(ov)[2] # Whole(0)
         /\ RawWeightsOf(ov)[1] # RawWeightsOf(ov)[2]
         /\ BoneWeightsOf(ov) # RawWeightsOf(ov)

\* C14: a vertex whose four raw weights are all zero ends with weight one in
\* slot 0, weight zero in the other slots, and bone id 0 in slot 0
C14_ZeroWeightFallback ==
    \A ov \in SkinnedVertices :
        RawWeightsOf(ov) = ZeroWeights =>
            /\ BoneWeightsOf(ov) = <<Whole(1), Whole(0), Whole(0), Whole(0)>>
            /\ BoneIDsOf(ov)[1] = 0

\* C15: every part is bound to its anchor bone alone, with bone ids
\* (anchor, 0, 0, 0) and weights (1, 0, 0, 0), the anchor being a bone of
\* the skeleton that gathered the part's points
C15_PartsRigidlyBound ==
    Loaded =>
        \A i \in DOMAIN collision_mesh :
            LET part == collision_mesh[i]
            IN  /\ part.bone \in BoneIds
                /\ part.points = PointsOf(vertices_, vertex_to_boneID_map_, part.bone, 0)
                /\ part.bone_ids = <<part.bone, 0, 0, 0>>
                /\ part.bone_weights = <<Whole(1), Whole(0), Whole(0), Whole(0)>>

\* C15 case: a part with points whose anchor is not bone 0
C15_Witness ==
    /\ Loaded
    /\ \E i \in DOMAIN collision_mesh :
         /\ collision_mesh[i].bone # 0
         /\ collision_mesh[i].points # <<>>
         /\ collision_mesh[i].bone_ids[1] = collision_mesh[i].bone

\* the depth of a node in the scene's hierarchy
RECURSIVE Depth(_, _)
Depth(sc, n) == IF sc.parent[n] = 0 THEN 0 ELSE 1 + Depth(sc, sc.parent[n])

\* C20: no node named as a bone lies at a smaller depth than the node that
\* findRootBone returned, which became bone 0 of the skeleton
C20_RootBoneIsShallowest ==
    (Loaded /\ Len(bones_) > 0) =>
        \A n \in SceneBoneNames(scene) :
            Depth(scene, bones_[1].name) <= Depth(scene, n)

\* C16: on a loaded skeleton every channel of every animation is keyed by the
\* id of an existing bone, every child id names an existing bone, the current
\* animation is an entry of the animation map and the bone count is the
\* length of the bone sequence: the per-frame path stays in range
C16_FramePathInRange ==
    Loaded =>
        /\ \A name \in DOMAIN animations_ :
             \A id \in DOMAIN animations_[name].channels :
                /\ id \in BoneIds
                /\ animations_[name].channels[id].bone_id = id
        /\ \A b \in BoneIds :
             \A j \in 1..Len(bones_[b + 1].children) : bones_[b + 1].children[j] \in BoneIds
        /\ current_animation_ # NoAnimation => current_animation_ \in DOMAIN animations_
        /\ num_bones_ = Len(bones_)

\* the names of the bones of the skeleton
BoneNames == {bones_[b + 1].name : b \in BoneIds}

\* C16 case: an animation with channels was played on a skeleton whose scene
\* animates a node that is no bone of it
C16_Witness ==
    /\ Loaded
    /\ call.op = "playCurrentAnimation"
    /\ current_animation_ # NoAnimation
    /\ DOMAIN animations_[current_animation_].channels # {}
    /\ \E a \in 1..Len(scene.anims) :
         \E c \in 1..Len(scene.anims[a].channels) :
            scene.anims[a].channels[c].node \notin BoneNames

\* the bones without a parent
ParentlessBones == {b \in BoneIds : bones_[b + 1].parent_id = RootSentinel}

\* the bones reached from bone b through child links
RECURSIVE ReachedFrom(_)
ReachedFrom(b) ==
    {b} \cup UNION {ReachedFrom(bones_[b + 1].children[j]) :
                        j \in 1..Len(bones_[b + 1].children)}

\* C17: a loaded skeleton has exactly one bone without a parent, and every
\* bone is reached from it through child links
C17_SingleRootReachesAll ==
    Loaded =>
        /\ Cardinality(ParentlessBones) = 1
        /\ \A r \in ParentlessBones : ReachedFrom(r) = BoneIds

\* C18: in a skeleton built by constructSkeleton every bone's id is its index,
\* the name map sends its name to that index, and the parent id of a bone
\* with a parent is a smaller index
C18_IdsAreIndices ==
    Loaded =>
        \A b \in BoneIds :
            /\ bones_[b + 1].id = b
            /\ bones_[b + 1].name \in DOMAIN bone_map_
            /\ bone_map_[bones_[b + 1].name] = b
            /\ bones_[b + 1].parent_id # RootSentinel =>
                 (bones_[b + 1].parent_id >= 0 /\ bones_[b + 1].parent_id < b)

\* C18 case: a loaded skeleton of three bones, the last with a parent other
\* than the root bone
C18_Witness ==
    /\ Loaded
    /\ Len(bones_) = 3
    /\ bones_[3].parent_id = 1
    /\ bone_map_[bones_[3].name] = 2

\* C19: the final matrix sequence has one entry per bone
C19_OneMatrixPerBone ==
    Loaded => Len(bone_matrices_) = Len(bones_)

\* C19 case: bones were added, the last call adding one under an existing
\* parent, and no matrix update has been called since
C19_Witness ==
    /\ Loaded
    /\ call.op = "addBone"
    /\ call.num = 0
    /\ Len(bones_) = MaxBones
    /\ Len(bone_matrices_) = MaxBones

----------------------------------------------------------------------------
(* Hierarchy collapse *)

\* the nearest proper ancestor of node n whose name is a bone name, or the
\* empty name when no ancestor is a bone
RECURSIVE NearestBoneAncestor(_, _)
NearestBoneAncestor(sc, n) ==
    LET p == sc.parent[n]
    IN  IF p = NullNode THEN EmptyName
        ELSE IF p \in SceneBoneNames(sc) THEN p
        ELSE NearestBoneAncestor(sc, p)

\* C21: every bone of a loaded skeleton is a node that is a recognized bone,
\* and the parent id of every bone other than the root bone is the id of the
\* bone made for its nearest ancestor node that is a recognized bone
C21_NonBoneNodesCollapsed ==
    Loaded =>
        \A b \in BoneIds :
            /\ bones_[b + 1].name \in SceneBoneNames(scene)
            /\ b # 0 =>
                 /\ bones_[b + 1].parent_id \in BoneIds
                 /\ bones_[bones_[b + 1].parent_id + 1].name =
                        NearestBoneAncestor(scene, bones_[b + 1].name)

\* C21 case: a loaded skeleton with a bone whose parent node is no bone and
\* whose parent bone is a node further up
C21_Witness ==
    /\ Loaded
    /\ \E b \in BoneIds :
         /\ b # 0
         /\ scene.parent[bones_[b + 1].name] \notin SceneBoneNames(scene)
         /\ bones_[bones_[b + 1].parent_id + 1].name =
                scene.parent[scene.parent[bones_[b + 1].name]]

----------------------------------------------------------------------------
(* Skin slots *)

\* the weights of a bone's list that are for vertex v, in list order
RECURSIVE WeightsFor(_, _)
WeightsFor(weights, v) ==
    IF weights = <<>> THEN <<>>
    ELSE (IF Head(weights).v = v THEN <<Head(weights).w>> ELSE <<>>)
             \o WeightsFor(Tail(weights), v)

\* the (bone id, weight) pairs the loops over aimesh->mBones and
\* bone->mWeights meet for vertex v, in iteration order
RECURSIVE EncounteredPairs(_, _, _)
EncounteredPairs(ai_bones, bone_map, v) ==
    IF ai_bones = <<>> THEN <<>>
    ELSE LET ws == WeightsFor(Head(ai_bones).weights, v)
         IN  [j \in 1..Len(ws) |-> [id |-> bone_map[Head(ai_bones).name], w |-> ws[j]]]
                 \o EncounteredPairs(Tail(ai_bones), bone_map, v)

\* the pairs met for the skinned vertex ov of the draw mesh
PairsOf(ov) == EncounteredPairs(scene.meshes[ov[1]].bones, bone_map_, ov[2] - 1)

\* C22: the skin slots of every vertex hold the first four pairs met for it,
\* in the order met, a zero weight among them included, and zero in the
\* slots left over
C22_FirstFourWin ==
    \A ov \in SkinnedVertices :
        \A j \in 1..MAX_BONES_PER_VERTEX :
            /\ BoneIDsOf(ov)[j] = IF j <= Len(PairsOf(ov)) THEN PairsOf(ov)[j].id ELSE 0
            /\ RawWeightsOf(ov)[j] = IF j <= Len(PairsOf(ov)) THEN PairsOf(ov)[j].w
                                     ELSE Whole(0)

----------------------------------------------------------------------------
(* Animation map *)

\* the names of the animations the scene declares
DeclaredAnimations == {scene.anims[a].name : a \in 1..Len(scene.anims)}

\* C25: in every state of a loaded skeleton the animation map holds exactly
\* the animations the scene declares, under the names it declares
C25_AnimationsAsDeclared ==
    Loaded => DOMAIN animations_ = DeclaredAnimations

----------------------------------------------------------------------------
(* Completion of the decomposition *)

\* C26: loadFbx of an imported scene that has a node named as a bone hands
\* back a loaded skeleton: the decomposition it ends with runs to completion,
\* a vertex that no bone lists included
C26_DecompositionCompletes ==
    (call.op = "loadFbx" /\ scene.parent # <<>> /\ ~NoRootBone) => status = "loaded"

----------------------------------------------------------------------------
(* Resolution of the skin's bone names *)

\* the names of the aiBones of the scene's meshes that list a vertex
WeightedBoneNames ==
    UNION { {scene.meshes[i].bones[b].name :
                b \in {k \in 1..Len(scene.meshes[i].bones) :
                          scene.meshes[i].bones[k].weights # <<>>}} :
            i \in 1..Len(scene.meshes) }

\* C28: on a loaded skeleton every bone named in the skin data of a mesh is a
\* bone of the skeleton, the name map sends the name to that bone, and a bone
\* carries vertex weights only if the skin data lists vertices under its name
C28_SkinBonesResolve ==
    Loaded =>
        /\ \A n \in SceneBoneNames(scene) :
             /\ n \in BoneNames
             /\ bones_[bone_map_[n] + 1].name = n
        /\ \A b \in BoneIds :
             DOMAIN bones_[b + 1].vertex_weights # {} =>
                 bones_[b + 1].name \in WeightedBoneNames

----------------------------------------------------------------------------
(* Grouping of the vertices by anchor bone *)

\* the ids of the bones under whose name the skin data of the mesh of vertex
\* number i of the skeleton's vertex list lists that vertex
InfluencingBones(i) ==
    LET mesh == scene.meshes[vertices_[i + 1][1]]
        v == vertices_[i + 1][2]
    IN  {bone_map_[mesh.bones[b].name] :
            b \in {k \in 1..Len(mesh.bones) :
                      \E w \in 1..Len(mesh.bones[k].weights) :
                          mesh.bones[k].weights[w].v = v}}

\* the positions gathered for the part number k
PointSet(k) == {collision_mesh[k].points[j] : j \in 1..Len(collision_mesh[k].points)}

\* C23: for every anchor bone there is a part, and a vertex's position is
\* among the points gathered for the part exactly if the anchor bone is one
\* of the bones that influence the vertex
C23_GroupedByMembership ==
    Loaded =>
        /\ \A a \in BranchingBones : \E k \in DOMAIN collision_mesh : collision_mesh[k].bone = a
        /\ \A k \in DOMAIN collision_mesh :
             \A i \in 0..(Len(vertices_) - 1) :
                 vertices_[i + 1] \in PointSet(k) <=>
                     collision_mesh[k].bone \in InfluencingBones(i)

\* C23 case: a vertex influenced by two anchor bones, not listed first for
\* one of them, and gathered for both
C23_Witness ==
    /\ Loaded
    /\ \E k1, k2 \in DOMAIN collision_mesh :
         /\ collision_mesh[k1].bone # collision_mesh[k2].bone
         /\ \E i \in 0..(Len(vertices_) - 1) :
              /\ vertices_[i + 1] \in PointSet(k1) \cap PointSet(k2)
              /\ vertex_to_boneID_map_[i][1] # collision_mesh[k2].bone

----------------------------------------------------------------------------
(* Part colors *)

\* the parts whose anchor bone gathered at least one vertex
NonEmptyParts == {k \in DOMAIN collision_mesh : collision_mesh[k].points # <<>>}

\* C24: with P the number of anchor bones that gathered vertices, every part
\* emitted is one of P parts and part number k (from 0) has hue k / P
C24_HuesOverNonEmptyParts ==
    Loaded =>
        \A k \in DOMAIN collision_mesh :
            /\ k <= Cardinality(NonEmptyParts)
            /\ collision_mesh[k].color = Rat(k - 1, Cardinality(NonEmptyParts))

----------------------------------------------------------------------------
(* Vertex identity across the stores *)

\* the names of the bones of mesh m of the scene that list vertex v of it
ListingBones(sc, m, v) ==
    {sc.meshes[m].bones[b].name :
        b \in {k \in 1..Len(sc.meshes[m].bones) :
                  \E w \in 1..Len(sc.meshes[m].bones[k].weights) :
                      sc.meshes[m].bones[k].weights[w].v = v}}

\* key i of the stores built by loadFbx denotes the vertex at position i of
\* the vertex list: i is a position of the list, the bones listed under i,
\* and the bones that hold a weight under i, are bones that list that vertex
StoresAgree(sc, st) ==
    /\ \A i \in DOMAIN st.vertex_to_boneID_map :
         /\ i < Len(st.vertices)
         /\ \A j \in 1..Len(st.vertex_to_boneID_map[i]) :
              st.bones[st.vertex_to_boneID_map[i][j] + 1].name
                  \in ListingBones(sc, st.vertices[i + 1][1], st.vertices[i + 1][2])
    /\ \A b \in 1..Len(st.bones) :
         \A i \in DOMAIN st.bones[b].vertex_weights :
             /\ i < Len(st.vertices)
             /\ st.bones[b].name
                  \in ListingBones(sc, st.vertices[i + 1][1], st.vertices[i + 1][2])

\* C27: the stores that loadFbx builds and hands to decomposeSkeleton agree on
\* the identity of every vertex, for scenes of several skinned meshes too
C27_VertexIdentityConsistent ==
    (call.op = "loadFbx" /\ scene.parent # <<>> /\ ~NoRootBone) =>
        StoresAgree(scene, loadFbxSkeleton(scene))

----------------------------------------------------------------------------
(* The meshes and the collider held by Core *)

\* C29: Core never holds a static and a skinned mesh together, is_skeletal
\* is set exactly while the skinned mesh is held, and a collider held was
\* made by a decomposition of the mesh loaded last, after that load
C29_OneMeshFreshCollider ==
    /\ ~(core.static_mesh /\ core.skinned_mesh)
    /\ core.render_options.is_skeletal <=> core.skinned_mesh
    /\ core.collider # NoCollider =>
         /\ core.collider.load = core.loads
         /\ core.collider.path = core.object_path
         /\ core.collider.kind = "static" <=> core.static_mesh
         /\ core.collider.kind = "skeletal" <=> core.skinned_mesh

\* C29 case: a skinned mesh uploaded in place of an earlier mesh and then
\* decomposed
C29_Witness ==
    /\ core.loads = MaxLoads
    /\ core.skinned_mesh
    /\ core.render_options.is_skeletal
    /\ core.collider.kind = "skeletal"
    /\ call.op = "decomposeSkeletal"

----------------------------------------------------------------------------
(* Animation "Off" *)

\* the final bone matrices of the bind pose
BindPoseMatrices == updateBoneMatrices(resetToBindPose(bones_), bone_matrices_, num_bones_)

\* C30: while "Off" is the animation selected on a loaded skinned mesh, no
\* animation is current, every local transform is the bind-pose snapshot, and
\* every frame drawn uses the final bone matrices of the bind pose, "Play
\* animation" checked or not
C30_OffDrawsBindPose ==
    (status = "loaded" /\ core.skinned_mesh /\ core.current_animation = 0 - 1) =>
        /\ current_animation_ = NoAnimation
        /\ InBindPose
        /\ call.op = "drawCurrentObject" => bone_matrices_ = BindPoseMatrices

====
